---- MODULE Spec2Model ----
(***************************************************************************)
(* httpx_folio.query: the query classifier (_QueryParser) and the          *)
(* parameter normalizer (QueryParams) with its four views.                 *)
(*                                                                         *)
(* Python strings are TLA+ strings, read character by character with       *)
(* SubSeq.  None is the empty sequence <<>> and a present value v is <<v>>. *)
(* An httpx.QueryParams is a sequence of entries [k |-> key, v |-> values],*)
(* keys distinct, in insertion order, each value a string.                 *)
(***************************************************************************)
EXTENDS Integers, Sequences, FiniteSets, TLC

\* ------------------------------------------------------------ constants
DEFAULT_PAGE_SIZE == 100
ERM_MAX_PERPAGE == 100
CQL_ALL_RECORDS == "cql.allRecords=1"

\* ------------------------------------------------------ python strings
None == << >>
Some(v) == << v >>

\* the element of a one-element set: The({e(x) : x \in {v}}) is e(v), with v
\* evaluated once
The(S) == CHOOSE x \in S : TRUE

Char(s, i) == SubSeq(s, i, i)

\* str[a:b] with 0 <= a <= b <= len
Slice(s, a, b) == SubSeq(s, a + 1, b)

\* the characters Python's \s and str.strip() treat as white space
IsSpace(c) == c \in {" ", "\t", "\n", "\r"}

\* re.IGNORECASE match of a literal at offset i (lo/up: the literal in
\* lower and in upper case)
MatchCI(s, i, lo, up) ==
    /\ i >= 0
    /\ i + Len(lo) <= Len(s)
    /\ \A k \in 1..Len(lo) : Char(s, i + k) \in {Char(lo, k), Char(up, k)}

\* x.lower() == lo
EqCI(s, lo, up) == Len(s) = Len(lo) /\ MatchCI(s, 0, lo, up)

\* str.strip()
Strip(s) ==
    The({ IF idx = {} THEN ""
          ELSE SubSeq(s, CHOOSE i \in idx : \A j \in idx : i <= j,
                         CHOOSE i \in idx : \A j \in idx : i >= j) :
          idx \in {{i \in 1..Len(s) : ~IsSpace(Char(s, i))}} })

\* '.' matches every character but the line feed: s[a:b] holds no line feed
NoNL(s, a, b) == \A k \in (a + 1)..b : Char(s, k) # "\n"

\* '$' matches at the end of the string and before a final line feed
AtEnd(s, p) == p = Len(s) \/ (p = Len(s) - 1 /\ Char(s, Len(s)) = "\n")

\* where a greedy '.*' started at p stops
DotRunEnd(s, p) ==
    CHOOSE r \in p..Len(s) :
        /\ NoNL(s, p, r)
        /\ (r = Len(s) \/ Char(s, r + 1) = "\n")

\* '.*$' matches from p
TailOK(s, p) == AtEnd(s, DotRunEnd(s, p))

\* where a greedy '\s*' started at p stops
SkipWS(s, p) ==
    CHOOSE r \in p..Len(s) :
        /\ \A k \in (p + 1)..r : IsSpace(Char(s, k))
        /\ (r = Len(s) \/ ~IsSpace(Char(s, r + 1)))

MaxOf(S) == CHOOSE m \in S : \A x \in S : x <= m

\* ------------------------------------------- _QueryParser: the patterns
\* "(?:\s*=\s*1)" from p: the offset it ends at, or -1
EqOneEnd(s, p) ==
    The({ IF ~MatchCI(s, w1, "=", "=") THEN -1
          ELSE The({ IF MatchCI(s, w2, "1", "1") THEN w2 + 1 ELSE -1 :
                     w2 \in {SkipWS(s, w1 + 1)} }) :
          w1 \in {SkipWS(s, p)} })

\* the ways "(allrecords)?(?:\s*=\s*1)?" can be taken, as the regex engine
\* tries them: each optional part first taken, then skipped
StdOptions ==
    << [a |-> TRUE, e |-> TRUE], [a |-> TRUE, e |-> FALSE],
       [a |-> FALSE, e |-> TRUE], [a |-> FALSE, e |-> FALSE] >>

\* the offset reached after "(.*cql\.)(allrecords)?(?:\s*=\s*1)?" with
\* "cql." at offset i and the optional parts taken as o, or -1
StdEnd(s, i, o) ==
    IF ~(NoNL(s, 0, i) /\ MatchCI(s, i, "cql.", "CQL.")) THEN -1
    ELSE IF o.a /\ ~MatchCI(s, i + 4, "allrecords", "ALLRECORDS") THEN -1
    ELSE IF o.e THEN EqOneEnd(s, IF o.a THEN i + 14 ELSE i + 4)
    ELSE IF o.a THEN i + 14
    ELSE i + 4

\* "(.+)?.*$" matches from the offset reached
StdFeasible(s, i, o) == \E pe \in {StdEnd(s, i, o)} : pe # -1 /\ TailOK(s, pe)

\* the first way, in the engine's order, that matches with "cql." at offset
\* i; 0 if none does
StdFirst(s, i) ==
    IF \E k \in 1..4 : StdFeasible(s, i, StdOptions[k])
    THEN CHOOSE k \in 1..4 :
            /\ StdFeasible(s, i, StdOptions[k])
            /\ \A j \in 1..(k - 1) : ~StdFeasible(s, i, StdOptions[j])
    ELSE 0

\* the groups of the first alternative, "cql." at offset i, the optional
\* parts taken as o, which end at offset pe
StdGroups(q, i, o, pe) ==
    The({ [ matched |-> TRUE,
            g1 |-> Some(Slice(q, 0, i + 4)),
            g2 |-> IF o.a THEN Some(Slice(q, i + 4, i + 14)) ELSE None,
            g3 |-> IF r > pe THEN Some(Slice(q, pe, r)) ELSE None ] :
          r \in {DotRunEnd(q, pe)} })

\* ".*sortby" ends at offset i + 6 and ".*$" matches the rest
SortbyAt(s, i) ==
    NoNL(s, 0, i) /\ MatchCI(s, i, "sortby", "SORTBY") /\ TailOK(s, i + 6)

\* _standard_cql_re.match(q): whether it matches, and its groups 1, 2, 3
_standard_cql_re(q) ==
    IF \E i \in 0..Len(q) : StdFirst(q, i) # 0
    THEN The({ The({ StdGroups(q, i, o, StdEnd(q, i, o)) :
                     o \in {StdOptions[StdFirst(q, i)]} }) :
               i \in {MaxOf({j \in 0..Len(q) : StdFirst(q, j) # 0})} })
    ELSE IF \E i \in 0..Len(q) : SortbyAt(q, i)
    THEN [matched |-> TRUE, g1 |-> None, g2 |-> None, g3 |-> None]
    ELSE [matched |-> FALSE, g1 |-> None, g2 |-> None, g3 |-> None]

\* _custom_cql_re.match(q): group 1 of "^(.*)sortby.*$", None without a match
_custom_cql_re(q) ==
    IF \E i \in 0..Len(q) : SortbyAt(q, i)
    THEN Some(Slice(q, 0, MaxOf({i \in 0..Len(q) : SortbyAt(q, i)})))
    ELSE None

\* "\s+id(?:(?:(?:\/sort\.)|\s+)?((?:asc)|(?:desc))(?:ending)?)?" from p with
\* the inner group taken and ".*$" matching the rest: the text of group 1
\* where the optional separator "(?:(?:\/sort\.)|\s+)?" started at q stops
SortSepEnd(s, q) ==
    IF MatchCI(s, q, "/sort.", "/SORT.") THEN q + 6 ELSE SkipWS(s, q)

\* the length of "((?:asc)|(?:desc))" at q1, 0 without a match
SortDirLen(s, q1) ==
    IF MatchCI(s, q1, "asc", "ASC") THEN 3
    ELSE IF MatchCI(s, q1, "desc", "DESC") THEN 4
    ELSE 0

\* group 1 at q1..r when "(?:ending)?.*$" matches from r
SortGroupAt(s, q1, r) ==
    IF /\ r > q1
       /\ \/ (MatchCI(s, r, "ending", "ENDING") /\ TailOK(s, r + 6))
          \/ TailOK(s, r)
    THEN Some(Slice(s, q1, r))
    ELSE None

SortGroup(s, p) ==
    The({ IF ~(w > p /\ MatchCI(s, w, "id", "ID")) THEN None
          ELSE The({ SortGroupAt(s, q1, q1 + SortDirLen(s, q1)) :
                     q1 \in {SortSepEnd(s, w + 2)} }) :
          w \in {SkipWS(s, p)} })

\* "\s+id" from p with the inner group skipped and ".*$" matching the rest
SortIdOnly(s, p) ==
    \E w \in {SkipWS(s, p)} :
        w > p /\ MatchCI(s, w, "id", "ID") /\ TailOK(s, w + 2)

\* "^.*sortby" ends at offset i + 6 and the rest of _sort_re matches
SortAt(s, i) ==
    /\ NoNL(s, 0, i)
    /\ MatchCI(s, i, "sortby", "SORTBY")
    /\ (SortGroup(s, i + 6) # None \/ SortIdOnly(s, i + 6) \/ TailOK(s, i + 6))

\* _sort_re.match(q): whether it matches, and its group 1
_sort_re(q) ==
    IF \E i \in 0..Len(q) : SortAt(q, i)
    THEN [matched |-> TRUE,
          g1 |-> SortGroup(q, MaxOf({i \in 0..Len(q) : SortAt(q, i)}) + 6)]
    ELSE [matched |-> FALSE, g1 |-> None]

\* --------------------------------------------- _QueryParser: the checks
\* _check_str_default(q) -> (custom_cql, is_cql, is_default)
_check_str_default(q) ==
    The({ IF ~m.matched
          THEN [qc |-> None, is_cql |-> FALSE, is_default |-> FALSE]
          ELSE IF m.g1 = None \/ m.g2 = None
          THEN [qc |-> IF mc # None /\ mc[1] # "" THEN Some(Strip(mc[1])) ELSE None,
                is_cql |-> TRUE, is_default |-> FALSE]
          ELSE IF /\ EqCI(Strip(m.g1[1]), "cql.", "CQL.")
                  /\ EqCI(Strip(m.g2[1]), "allrecords", "ALLRECORDS")
                  /\ \/ m.g3 = None
                     \/ MatchCI(Strip(m.g3[1]), 0, "sortby", "SORTBY")
          THEN [qc |-> None, is_cql |-> TRUE, is_default |-> TRUE]
          ELSE [qc |-> None, is_cql |-> FALSE, is_default |-> FALSE] :
          m \in {_standard_cql_re(q)}, mc \in {_custom_cql_re(q)} })

\* _check_str_sort(q) -> _SortType
_check_str_sort(q) ==
    The({ IF ~m.matched THEN "UNSORTED"
          ELSE IF m.g1 = None THEN "NONSTANDARD"
          ELSE IF EqCI(Strip(m.g1[1]), "asc", "ASC") THEN "ASCENDING"
          ELSE IF EqCI(Strip(m.g1[1]), "desc", "DESC") THEN "DESCENDING"
          ELSE "NONSTANDARD" :
          m \in {_sort_re(q)} })

\* ------------------------------------------------------- python values
\* the values a caller's dict may hold
StrV(s) == [t |-> "str", s |-> s]
IntV(n) == [t |-> "int", n |-> n]
BoolV(b) == [t |-> "bool", b |-> b]
ListV(items) == [t |-> "list", items |-> items]

\* isinstance(v, str)
IsStr(v) == v.t = "str"

\* isinstance(v, Sequence)
IsSequence(v) == v.t \in {"str", "list"}

\* bool(v)
Truthy(v) ==
    CASE v.t = "str" -> v.s # ""
      [] v.t = "int" -> v.n # 0
      [] v.t = "bool" -> v.b
      [] v.t = "list" -> Len(v.items) > 0

\* httpx primitive_value_to_str
PrimStr(v) ==
    CASE v.t = "str" -> v.s
      [] v.t = "int" -> ToString(v.n)
      [] v.t = "bool" -> IF v.b THEN "true" ELSE "false"

\* ---------------------------------------------------- httpx.QueryParams
EmptyParams == << >>

\* key in params
PHas(params, key) == \E i \in 1..Len(params) : params[i].k = key

PIdx(params, key) == CHOOSE i \in 1..Len(params) : params[i].k = key

\* params.get_list(key)
PGetList(params, key) ==
    IF PHas(params, key) THEN params[PIdx(params, key)].v ELSE << >>

\* params[key]; the caller has checked that the key holds a value
PGetItem(params, key) == params[PIdx(params, key)].v[1]

PPut(params, key, vals) ==
    IF PHas(params, key)
    THEN [params EXCEPT ![PIdx(params, key)].v = vals]
    ELSE Append(params, [k |-> key, v |-> vals])

\* params.set(key, value)
PSet(params, key, value) == PPut(params, key, << PrimStr(value) >>)

\* params.add(key, value)
PAdd(params, key, value) ==
    PPut(params, key, PGetList(params, key) \o << PrimStr(value) >>)

\* params.remove(key)
PRemove(params, key) == SelectSeq(params, LAMBDA e : e.k # key)

\* httpx.QueryParams(dict): every value a list of strings, a list or tuple
\* value spread into its items
PFromDict(d) ==
    [i \in 1..Len(d) |->
        [k |-> d[i].k,
         v |-> IF d[i].v.t = "list"
               THEN [j \in 1..Len(d[i].v.items) |-> PrimStr(d[i].v.items[j])]
               ELSE << PrimStr(d[i].v) >>]]

RECURSIVE PUpdate(_, _)
PUpdate(params, other) ==
    IF other = << >> THEN params
    ELSE PUpdate(PPut(params, Head(other).k, Head(other).v), Tail(other))

\* params.merge(dict)
PMerge(params, d) == PUpdate(params, PFromDict(d))

\* --------------------------------------------------------- QueryType
\* the input of QueryParams: None, a str, a dict or an httpx.QueryParams
NoneInput == [kind |-> "none", s |-> "", d |-> << >>, p |-> << >>]
StrInput(s) == [kind |-> "str", s |-> s, d |-> << >>, p |-> << >>]
DictInput(d) == [kind |-> "dict", s |-> "", d |-> d, p |-> << >>]
ParamsInput(p) == [kind |-> "params", s |-> "", d |-> << >>, p |-> p]

\* isinstance(query, (dict, httpx.QueryParams))
IsMapping(query) == query.kind \in {"dict", "params"}

DHas(d, key) == \E i \in 1..Len(d) : d[i].k = key

\* d[key]
DGet(d, key) == d[CHOOSE i \in 1..Len(d) : d[i].k = key].v

\* key in query
HasKey(query, key) ==
    IF query.kind = "dict" THEN DHas(query.d, key)
    ELSE query.kind = "params" /\ PHas(query.p, key)

\* ------------------------------------- _QueryParser: the check methods
\* what a check returns when it finds nothing; err names a raised exception
NoFind ==
    [err |-> "", q |-> None, qc |-> None, is_cql |-> FALSE, is_default |-> FALSE]

Raise(kind) == [NoFind EXCEPT !.err = kind]

\* check_string() -> (query, custom_cql, is_cql, is_default)
check_string(query) ==
    IF query.kind # "str" THEN NoFind
    ELSE The({ [err |-> "", q |-> Some(query.s), qc |-> r.qc,
                is_cql |-> r.is_cql, is_default |-> r.is_default] :
               r \in {_check_str_default(query.s)} })

\* check_query() -> (query, custom_cql, is_cql, is_default)
\* what check_query() returns for the query string q
FoundQuery(q) ==
    The({ [err |-> "", q |-> Some(q), qc |-> r.qc, is_cql |-> TRUE,
           is_default |-> r.is_default] :
          r \in {_check_str_default(q)} })

check_query(query) ==
    IF ~IsMapping(query) \/ ~HasKey(query, "query") THEN NoFind
    ELSE IF query.kind = "dict"
    THEN The({ IF ~Truthy(q) THEN NoFind
               ELSE IF ~IsStr(q) THEN Raise("TypeError")
               ELSE FoundQuery(q.s) :
               q \in {DGet(query.d, "query")} })
    ELSE The({ IF Len(qs) = 1 THEN FoundQuery(qs[1])
               \* the message reads self.query['query'], the first value
               ELSE IF Len(qs) = 0 THEN Raise("IndexError")
               ELSE Raise("ValueError") :
               qs \in {PGetList(query.p, "query")} })

\* the list check_filters() makes of a dict's filters value
DictFilters(q) ==
    IF IsStr(q) THEN << q >>
    ELSE IF IsSequence(q) THEN q.items
    ELSE << >>

\* check_filters() -> list[str] | None
check_filters(query) ==
    IF ~IsMapping(query) \/ ~HasKey(query, "filters")
    THEN [err |-> "", filters |-> None]
    ELSE IF query.kind = "params"
    THEN [err |-> "", filters |-> Some(PGetList(query.p, "filters"))]
    ELSE The({ IF \A i \in 1..Len(filters) : IsStr(filters[i])
               THEN [err |-> "",
                     filters |-> Some([i \in 1..Len(filters) |-> filters[i].s])]
               ELSE [err |-> "TypeError", filters |-> None] :
               filters \in {DictFilters(DGet(query.d, "filters"))} })

\* check_erm() -> bool
check_erm(query) == IsMapping(query) /\ HasKey(query, "sort")

\* query.get(key, None) of a dict or an httpx.QueryParams: err is IndexError
\* for a QueryParams key that holds no value
MapGet(query, key) ==
    IF ~HasKey(query, key) THEN [err |-> "", v |-> None]
    ELSE IF query.kind = "dict" THEN [err |-> "", v |-> Some(DGet(query.d, key))]
    ELSE IF PGetList(query.p, key) = << >> THEN [err |-> "IndexError", v |-> None]
    ELSE [err |-> "", v |-> Some(StrV(PGetItem(query.p, key)))]

\* the direction check_sort() reads from a stripped sort value
SortKeyType(s) ==
    IF EqCI(s, "id;asc", "ID;ASC") THEN "ASCENDING"
    ELSE IF EqCI(s, "id;desc", "ID;DESC") THEN "DESCENDING"
    ELSE "UNSORTED"

\* check_sort that takes a sort value of any type
check_sort_of_any_value(query) ==
    IF query.kind = "str"
    THEN [err |-> "", sort_type |-> _check_str_sort(query.s)]
    ELSE IF ~IsMapping(query) THEN [err |-> "", sort_type |-> "UNSORTED"]
    ELSE The({ IF q.err # "" THEN [err |-> q.err, sort_type |-> "UNSORTED"]
               ELSE IF q.v # None /\ Truthy(q.v[1])
               THEN IF ~IsStr(q.v[1])
                    THEN [err |-> "TypeError", sort_type |-> "UNSORTED"]
                    ELSE [err |-> "", sort_type |-> _check_str_sort(q.v[1].s)]
               ELSE IF s.err # "" THEN [err |-> s.err, sort_type |-> "UNSORTED"]
               ELSE IF s.v # None /\ IsStr(s.v[1])
               THEN [err |-> "", sort_type |-> SortKeyType(Strip(s.v[1].s))]
               ELSE [err |-> "", sort_type |-> "UNSORTED"] :
               q \in {MapGet(query, "query")}, s \in {MapGet(query, "sort")} })

\* check_sort() -> _SortType
check_sort(query) ==
    IF query.kind = "str"
    THEN [err |-> "", sort_type |-> _check_str_sort(query.s)]
    ELSE IF ~IsMapping(query) THEN [err |-> "", sort_type |-> "UNSORTED"]
    ELSE The({ IF q.err # "" THEN [err |-> q.err, sort_type |-> "UNSORTED"]
               ELSE IF q.v # None /\ Truthy(q.v[1])
               THEN IF ~IsStr(q.v[1])
                    THEN [err |-> "TypeError", sort_type |-> "UNSORTED"]
                    ELSE [err |-> "", sort_type |-> _check_str_sort(q.v[1].s)]
               ELSE IF s.err # "" THEN [err |-> s.err, sort_type |-> "UNSORTED"]
               ELSE IF s.v # None /\ Truthy(s.v[1])
               THEN IF ~IsStr(s.v[1])
                    THEN [err |-> "TypeError", sort_type |-> "UNSORTED"]
                    ELSE [err |-> "", sort_type |-> SortKeyType(Strip(s.v[1].s))]
               ELSE [err |-> "", sort_type |-> "UNSORTED"] :
               q \in {MapGet(query, "query")}, s \in {MapGet(query, "sort")} })

\* _reserved with sort added
_reserved_and_sort ==
    {"query", "filters", "limit", "perPage", "offset", "stats", "sort"}

_reserved == {"query", "filters", "limit", "perPage", "offset", "stats"}

\* additional_params() -> httpx.QueryParams
additional_params(query) ==
    IF ~IsMapping(query) THEN EmptyParams
    ELSE SelectSeq(IF query.kind = "dict" THEN PFromDict(query.d) ELSE query.p,
                   LAMBDA e : e.k \notin _reserved)

\* ------------------------------------------------- QueryParams.__init__
\* the fields as __init__ first sets them
Fresh(limit) ==
    [ err |-> "",
      _limit |-> limit,
      _query |-> << >>,
      _is_erm |-> "None",
      _is_cql |-> "None",
      _sort_type |-> "UNSORTED",
      _is_default |-> FALSE,
      _custom_cql |-> None,
      _additional_params |-> EmptyParams ]

\* the assignments that follow check_string() and check_query()
Found(obj, r) ==
    [obj EXCEPT
        !._query = IF r.q # None THEN << r.q[1] >> ELSE @,
        !._custom_cql = IF r.qc # None THEN r.qc ELSE @,
        !._is_erm = IF r.is_cql THEN "False" ELSE @,
        !._is_cql = IF r.is_cql THEN "True" ELSE @,
        !._is_default = IF r.is_cql THEN r.is_default ELSE @]

\* the assignments that follow check_filters()
FoundFilters(obj, filters) ==
    IF filters # None
    THEN [obj EXCEPT !._query = filters[1], !._is_erm = "True", !._is_cql = "False"]
    ELSE obj

\* FoundErm with the check's finding ignored
FoundErm_ignored(obj, is_erm) == obj

\* the assignments that follow check_erm()
FoundErm(obj, is_erm) ==
    IF is_erm THEN [obj EXCEPT !._is_erm = "True", !._is_cql = "False"] ELSE obj

\* QueryParams(query, limit): the fields of the new object; err names the
\* exception when construction raises
__init__(query, limit) ==
    IF query.kind = "none" THEN [Fresh(limit) EXCEPT !._is_default = TRUE]
    ELSE The({ IF cq.err # "" THEN [Fresh(limit) EXCEPT !.err = cq.err]
               ELSE IF cf.err # "" THEN [Fresh(limit) EXCEPT !.err = cf.err]
               ELSE IF cs.err # "" THEN [Fresh(limit) EXCEPT !.err = cs.err]
               ELSE [FoundErm(
                        FoundFilters(
                            Found(Found([Fresh(limit) EXCEPT
                                            !._additional_params =
                                                additional_params(query)],
                                        check_string(query)),
                                  cq),
                            cf.filters),
                        check_erm(query))
                     EXCEPT !._sort_type = cs.sort_type] :
               cq \in {check_query(query)},
               cf \in {check_filters(query)},
               cs \in {check_sort(query)} })

\* ------------------------------------------------ QueryParams: the views
\* the flag is None or True: "if flag is None or flag"
NotRuledOut(flag) == flag \in {"None", "True"}

RECURSIVE AddEach(_, _, _)
\* for q in values: params = params.add(key, q)
AddEach(params, key, values) ==
    IF values = << >> THEN params
    ELSE AddEach(PAdd(params, key, StrV(Head(values))), key, Tail(values))

\* normalized() -> httpx.QueryParams
\* "add cql params if it is or might be cql"
add_cql(this, params) ==
    IF NotRuledOut(this._is_cql)
    THEN PMerge(params,
           << [k |-> "query",
               v |-> StrV(IF Len(this._query) = 1 THEN this._query[1]
                          ELSE CQL_ALL_RECORDS)],
              [k |-> "limit", v |-> IntV(this._limit)] >>)
    ELSE params

\* add_erm with "self._is_erm is None or" dropped
add_erm_only_if_true(this, params) ==
    IF this._is_erm = "True"
    THEN PMerge(AddEach(params, "filters", this._query),
           << [k |-> "perPage", v |-> IntV(this._limit)],
              [k |-> "stats", v |-> BoolV(TRUE)] >>)
    ELSE params

\* "add erm params if it is or might be erm"
add_erm(this, params) ==
    IF NotRuledOut(this._is_erm)
    THEN PMerge(AddEach(params, "filters", this._query),
           << [k |-> "perPage", v |-> IntV(this._limit)],
              [k |-> "stats", v |-> BoolV(TRUE)] >>)
    ELSE params

normalized(this) == add_erm(this, add_cql(this, this._additional_params))

\* add_sort with "self._is_erm is None or" dropped
add_sort_only_if_erm(this, params) ==
    The({ IF ~PHas(p1, "sort") /\ this._is_erm = "True"
          THEN PAdd(p1, "sort", StrV("id;asc"))
          ELSE p1 :
          p1 \in { IF PHas(params, "query") /\ this._sort_type = "UNSORTED"
                   THEN PSet(params, "query",
                             StrV(PGetItem(params, "query") \o " sortBy id"))
                   ELSE params } })

\* "add a sort": the two statements stats() and offset_paging() share
add_sort(this, params) ==
    The({ IF ~PHas(p1, "sort") /\ NotRuledOut(this._is_erm)
          THEN PAdd(p1, "sort", StrV("id;asc"))
          ELSE p1 :
          p1 \in { IF PHas(params, "query") /\ this._sort_type = "UNSORTED"
                   THEN PSet(params, "query",
                             StrV(PGetItem(params, "query") \o " sortBy id"))
                   ELSE params } })

\* override_limit with perPage left as it is
override_limit_only(params) ==
    IF PHas(params, "limit") THEN PSet(params, "limit", IntV(1)) ELSE params

\* "override the limit" of stats()
override_limit(params) ==
    The({ IF PHas(p1, "perPage") THEN PSet(p1, "perPage", IntV(1)) ELSE p1 :
          p1 \in { IF PHas(params, "limit") THEN PSet(params, "limit", IntV(1))
                   ELSE params } })

\* stats() -> httpx.QueryParams
stats(this) == override_limit(add_sort(this, normalized(this)))

\* strip_erm with >= for >
strip_erm_at_ceiling(this, params) ==
    IF this._is_erm = "None" /\ this._limit >= ERM_MAX_PERPAGE
    THEN PRemove(PRemove(PRemove(params, "stats"), "sort"), "perPage")
    ELSE params

\* "page size can't be normalized if it is over 100"
strip_erm(this, params) ==
    IF this._is_erm = "None" /\ this._limit > ERM_MAX_PERPAGE
    THEN PRemove(PRemove(PRemove(params, "stats"), "sort"), "perPage")
    ELSE params

Min(a, b) == IF a <= b THEN a ELSE b

\* effective_limit without the ERM ceiling
effective_limit_unclamped(this) == this._limit

\* the page size offset_paging() multiplies the page index by
effective_limit(this) ==
    IF this._is_erm = "True" THEN Min(this._limit, ERM_MAX_PERPAGE)
    ELSE this._limit

\* offset_paging(page) -> httpx.QueryParams; page is None or <<index>>
\* "if we know we're paging ERM then we'll override the provided page size"
clamp_erm(this, params) ==
    IF this._is_erm = "True"
    THEN PSet(params, "perPage", IntV(effective_limit(this)))
    ELSE params

offset_paging(this, page) ==
    PSet(clamp_erm(this, strip_erm(this, add_sort(this, normalized(this)))),
         "offset",
         IntV((IF page = None THEN 0 ELSE page[1]) * effective_limit(this)))

HIGHEST_ID == "99999999-9999-9999-9999-999999999999"
LOWEST_ID == "00000000-0000-0000-0000-000000000000"

\* cursor_id with the ascending default for every direction
cursor_id_from_lowest(this, last_id) ==
    IF last_id # None /\ last_id[1] # "" THEN last_id[1]
    ELSE LOWEST_ID

\* last_id or (the default of the sort direction); last_id is None or <<id>>
cursor_id(this, last_id) ==
    IF last_id # None /\ last_id[1] # "" THEN last_id[1]
    ELSE IF this._sort_type = "DESCENDING" THEN HIGHEST_ID
    ELSE LOWEST_ID

\* the cursor predicate f"id<{last_id}" / f"id>{last_id}"
cursor_predicate(this, last_id) ==
    IF this._sort_type = "DESCENDING"
    THEN "id<" \o cursor_id(this, last_id)
    ELSE "id>" \o cursor_id(this, last_id)

\* conjoined with "not self._is_default" dropped
conjoined_despite_default(this) ==
    IF this._custom_cql # None
    THEN " and (" \o this._custom_cql[1] \o ")"
    ELSE IF Len(this._query) = 1
    THEN " and (" \o this._query[1] \o ")"
    ELSE ""

\* the " and (...)" that id_paging() conjoins to the cursor predicate
conjoined(this) ==
    IF ~this._is_default /\ this._custom_cql # None
    THEN " and (" \o this._custom_cql[1] \o ")"
    ELSE IF ~this._is_default /\ Len(this._query) = 1
    THEN " and (" \o this._query[1] \o ")"
    ELSE ""

\* cursor_query without the conjoined predicate
cursor_query_without_conjoined(this, last_id) ==
    cursor_predicate(this, last_id) \o
        (IF this._sort_type = "DESCENDING" THEN " sortBy id/sort.descending"
         ELSE " sortBy id")

\* the query id_paging() sets
cursor_query(this, last_id) ==
    cursor_predicate(this, last_id) \o conjoined(this) \o
        (IF this._sort_type = "DESCENDING" THEN " sortBy id/sort.descending"
         ELSE " sortBy id")

\* id_paging(last_id) -> httpx.QueryParams
\* "if self._is_cql is None or self._is_cql" of id_paging()
page_cql(this, params, last_id) ==
    IF NotRuledOut(this._is_cql)
    THEN PSet(params, "query", StrV(cursor_query(this, last_id)))
    ELSE params

\* "if self._is_erm is None or self._is_erm" of id_paging()
page_erm(this, params, last_id) ==
    IF NotRuledOut(this._is_erm)
    THEN PAdd(PSet(params, "sort",
                   StrV(IF this._sort_type = "DESCENDING" THEN "id;desc"
                        ELSE "id;asc")),
              "filters", StrV(cursor_predicate(this, last_id)))
    ELSE params

id_paging(this, last_id) ==
    page_erm(this, page_cql(this, normalized(this), last_id), last_id)

\* ------------------------------------------------------------- inputs
\* the largest page index offset_paging is called with
MaxPage == 2

\* the page sizes: the default, the ERM ceiling's two sides, the tests' 1000
Limits == {1, DEFAULT_PAGE_SIZE, ERM_MAX_PERPAGE + 1, 1000}

\* a cursor as the tests supply it
LAST_ID == "a88e5d82-96f7-4d9f-b7d6-1504c3b26a3d"

Pages == {None} \cup {Some(n) : n \in 0..MaxPage}
LastIds == {None, Some(""), Some(LAST_ID)}

\* plain strings: a predicate part followed by a sort clause
Predicates ==
    { "", "simple query", "cql.allRecords=1", "CQL.ALLRECORDS=1",
      "cql.allRecords=1 and x=1", "a\nb" }
SortClauses ==
    { "", " sortBy index", " SORTBY id desc", " sortby id/sort.ascending",
      " sortBy id" }
\* and a string that is a sort clause and nothing else
Strings == {a \o b : a \in Predicates, b \in SortClauses} \cup {"sortBy id"}

\* the values of the recognized keys of a dict; None: the key is absent
QueryValues ==
    { None, Some(StrV("simple query")), Some(StrV("cql.allRecords=1")),
      Some(StrV("x=1 sortBy id desc")), Some(StrV("")), Some(IntV(5)),
      Some(ListV(<< StrV("a"), StrV("b") >>)), Some(ListV(<< >>)) }
FilterValues ==
    { None, Some(StrV("one filter")),
      Some(ListV(<< StrV("two"), StrV("filters") >>)),
      Some(ListV(<< StrV("dup"), StrV("dup") >>)),
      Some(ListV(<< StrV("a"), IntV(5) >>)), Some(IntV(5)), Some(ListV(<< >>)) }
SortValues ==
    { None, Some(StrV("index;desc")), Some(StrV("id;asc")), Some(StrV("ID;DESC ")),
      Some(StrV("")), Some(IntV(5)),
      Some(ListV(<< StrV("id;asc"), StrV("name") >>)) }

\* the other keys of a dict: those before and those after the recognized ones
ExtraKeys ==
    { [before |-> << >>, after |-> << >>],
      [before |-> << [k |-> "lang", v |-> StrV("en")] >>,
       after  |-> << [k |-> "limit", v |-> IntV(7)],
                     [k |-> "facets", v |-> ListV(<< StrV("f1"), StrV("f2") >>)],
                     [k |-> "offset", v |-> IntV(3)],
                     [k |-> "perPage", v |-> StrV("9")],
                     [k |-> "expand", v |-> BoolV(TRUE)],
                     [k |-> "stats", v |-> BoolV(FALSE)] >>] }

Entry(key, value) == IF value = None THEN << >> ELSE << [k |-> key, v |-> value[1]] >>

Dicts ==
    { x.before \o Entry("query", q) \o Entry("filters", f) \o Entry("sort", s)
        \o x.after :
        q \in QueryValues, f \in FilterValues, s \in SortValues, x \in ExtraKeys }

Inputs ==
    {NoneInput} \cup {StrInput(s) : s \in Strings}
        \cup {DictInput(d) : d \in Dicts}
        \cup {ParamsInput(PFromDict(d)) : d \in Dicts}

\* ------------------------------------------------------ the state machine
VARIABLES
    query,      \* the query argument of QueryParams(query, limit)
    limit,      \* its limit argument
    pc,         \* "start", "ready" (constructed) or "failed" (it raised)
    error,      \* the exception construction raised, "" if none
    self,       \* the fields of the constructed object
    call,       \* the view called last and its argument
    result      \* the httpx.QueryParams that view returned

vars == << query, limit, pc, error, self, call, result >>

\* again: a view had been called on the object before this one
NoCall == [view |-> "", page |-> None, last_id |-> None, again |-> FALSE]

Init ==
    /\ query \in Inputs
    /\ limit \in Limits
    /\ pc = "start"
    /\ error = ""
    /\ self = Fresh(limit)
    /\ call = NoCall
    /\ result = EmptyParams

\* QueryParams(query, limit)
Construct ==
    /\ pc = "start"
    /\ \E obj \in {__init__(query, limit)} :
          /\ error' = obj.err
          /\ pc' = IF obj.err = "" THEN "ready" ELSE "failed"
          /\ self' = IF obj.err = "" THEN obj ELSE self
    /\ UNCHANGED << query, limit, call, result >>

\* normalized() with merge() and add() changing the stored passthrough set
Normalized_in_place ==
    /\ pc = "ready"
    /\ call' = [NoCall EXCEPT !.view = "normalized", !.again = call.view # ""]
    /\ result' = normalized(self)
    /\ self' = [self EXCEPT !._additional_params = normalized(self)]
    /\ UNCHANGED << query, limit, pc, error >>

\* self.normalized()
Normalized ==
    /\ pc = "ready"
    /\ call' = [NoCall EXCEPT !.view = "normalized", !.again = call.view # ""]
    /\ result' = normalized(self)
    /\ UNCHANGED << query, limit, pc, error, self >>

\* self.stats()
Stats ==
    /\ pc = "ready"
    /\ call' = [NoCall EXCEPT !.view = "stats", !.again = call.view # ""]
    /\ result' = stats(self)
    /\ UNCHANGED << query, limit, pc, error, self >>

\* self.offset_paging(page)
OffsetPaging ==
    /\ pc = "ready"
    /\ \E page \in Pages :
          /\ call' = [NoCall EXCEPT !.view = "offset_paging", !.page = page,
                                  !.again = call.view # ""]
          /\ result' = offset_paging(self, page)
    /\ UNCHANGED << query, limit, pc, error, self >>

\* self.id_paging(last_id)
IdPaging ==
    /\ pc = "ready"
    /\ \E last_id \in LastIds :
          /\ call' = [NoCall EXCEPT !.view = "id_paging", !.last_id = last_id,
                                  !.again = call.view # ""]
          /\ result' = id_paging(self, last_id)
    /\ UNCHANGED << query, limit, pc, error, self >>

Next == Construct \/ Normalized \/ Stats \/ OffsetPaging \/ IdPaging

Spec == Init /\ [][Next]_vars

\* ------------------------------------------------------------ properties
\* the entries of a parameter set, whatever their order
Items(params) == {params[i] : i \in 1..Len(params)}

Called(view) == pc = "ready" /\ call.view = view

\* the CQL family: query, and limit=<limit>
HasCqlFamily(params) ==
    PHas(params, "query") /\ PGetList(params, "limit") = << ToString(limit) >>

\* the ERM family: perPage=<limit> and stats=true
HasErmFamily(params) ==
    /\ PGetList(params, "perPage") = << ToString(limit) >>
    /\ PGetList(params, "stats") = << "true" >>

NoCqlKeys(params) == ~PHas(params, "query") /\ ~PHas(params, "limit")

NoErmKeys(params) ==
    ~PHas(params, "filters") /\ ~PHas(params, "perPage") /\ ~PHas(params, "stats")

DialectUnknown == self._is_cql = "None" /\ self._is_erm = "None"

\* C1: normalized() holds the CQL family (query, limit=limit) or the ERM
\* family (perPage=limit, stats=true), each whole or not at all and never
\* neither; it holds both exactly when both flags are unresolved, and then
\* query is cql.allRecords=1 without a filters entry for input None, and
\* query and the one filters entry are the string for a plain string.  The
\* flags are never both true and never both false.
C1_NormalizedFamilies ==
    Called("normalized") =>
        /\ HasCqlFamily(result) \/ NoCqlKeys(result)
        /\ HasErmFamily(result) \/ NoErmKeys(result)
        /\ HasCqlFamily(result) \/ HasErmFamily(result)
        /\ (HasCqlFamily(result) /\ HasErmFamily(result)) <=> DialectUnknown
        /\ (DialectUnknown /\ query.kind = "none") =>
              /\ PGetList(result, "query") = << CQL_ALL_RECORDS >>
              /\ ~PHas(result, "filters")
        /\ (DialectUnknown /\ query.kind = "str") =>
              /\ PGetList(result, "query") = << query.s >>
              /\ PGetList(result, "filters") = << query.s >>
        /\ ~(self._is_cql = "True" /\ self._is_erm = "True")
        /\ ~(self._is_cql = "False" /\ self._is_erm = "False")

\* C1's case: a plain string of unknown dialect, normalized
C1_Witness ==
    /\ Called("normalized")
    /\ DialectUnknown
    /\ query = StrInput("simple query")
    /\ PGetList(result, "filters") = << "simple query" >>
    /\ HasCqlFamily(result) /\ HasErmFamily(result)

\* the string holds the token sortby, in any letter case
ContainsSortby(s) == \E i \in 0..Len(s) : MatchCI(s, i, "sortby", "SORTBY")

\* C2: a plain string that holds the token sortby anywhere is CQL-true and
\* ERM-false, and normalized() is exactly query=<the string>, limit=<limit>
C2_SortbyStringIsCql ==
    (Called("normalized") /\ query.kind = "str" /\ ContainsSortby(query.s)) =>
        /\ self._is_cql = "True"
        /\ self._is_erm = "False"
        /\ Items(result) = { [k |-> "query", v |-> << query.s >>],
                             [k |-> "limit", v |-> << ToString(limit) >>] }

\* the list of strings a well-formed filters value stands for
FilterList(q) ==
    IF q.kind = "params" THEN PGetList(q.p, "filters")
    ELSE IF DGet(q.d, "filters").t = "str" THEN << DGet(q.d, "filters").s >>
    ELSE [i \in 1..Len(DGet(q.d, "filters").items) |->
             DGet(q.d, "filters").items[i].s]

\* the filters value is a string or a sequence of strings
FiltersWellFormed(q) ==
    \/ q.kind = "params"
    \/ DGet(q.d, "filters").t = "str"
    \/ /\ DGet(q.d, "filters").t = "list"
       /\ \A i \in 1..Len(DGet(q.d, "filters").items) :
             DGet(q.d, "filters").items[i].t = "str"

\* the query key holds one string
QueryIsString(q) ==
    IF q.kind = "params" THEN Len(PGetList(q.p, "query")) = 1
    ELSE DGet(q.d, "query").t = "str"

QueryString(q) ==
    IF q.kind = "params" THEN PGetItem(q.p, "query") ELSE DGet(q.d, "query").s

\* the input without one of its keys
WithoutKey(q, key) ==
    [q EXCEPT !.d = SelectSeq(@, LAMBDA e : e.k # key), !.p = PRemove(@, key)]

\* C3 but for its last case: a filters key makes the input ERM-true and
\* CQL-false and its list the captured values; a sort key makes it ERM-true
\* and CQL-false and leaves the captured values as they are without it;
\* {query, filters} normalizes to the filters alone
LastCheckWins ==
    (pc = "ready" /\ IsMapping(query)) =>
        /\ HasKey(query, "filters") =>
              /\ self._is_erm = "True" /\ self._is_cql = "False"
              /\ FiltersWellFormed(query) => self._query = FilterList(query)
        /\ HasKey(query, "sort") =>
              /\ self._is_erm = "True" /\ self._is_cql = "False"
              /\ self._query = __init__(WithoutKey(query, "sort"), limit)._query
        /\ ( /\ Called("normalized")
             /\ HasKey(query, "query") /\ HasKey(query, "filters")
             /\ FiltersWellFormed(query) ) =>
              /\ NoCqlKeys(result)
              /\ PGetList(result, "filters") = FilterList(query)

\* {query: q, sort: s} without a filters key, q one string
QueryAndSort ==
    /\ Called("normalized")
    /\ HasKey(query, "query") /\ HasKey(query, "sort")
    /\ ~HasKey(query, "filters")
    /\ QueryIsString(query)

\* C3 as stated: the checks apply in the order string, query, filters, sort
\* and the last applicable one wins; {query: q, sort: s} normalizes to no
\* query or limit key and exactly one filters entry equal to q
C3_LastCheckWins_Original ==
    /\ LastCheckWins
    /\ QueryAndSort =>
          /\ NoCqlKeys(result)
          /\ PGetList(result, "filters") = << QueryString(query) >>

\* C3 as amended: the same, the last case for a non-empty q (a dict's empty
\* query string is ignored: nothing is captured and no filters entry emitted)
C3_LastCheckWins ==
    /\ LastCheckWins
    /\ QueryAndSort =>
          /\ NoCqlKeys(result)
          /\ QueryString(query) # "" =>
                PGetList(result, "filters") = << QueryString(query) >>
          /\ (QueryString(query) = "" /\ query.kind = "dict") =>
                ~PHas(result, "filters")

\* C3's case: a dict with a query and a sort key, normalized
C3_Witness ==
    /\ QueryAndSort
    /\ query.kind = "dict"
    /\ QueryString(query) = "simple query"
    /\ Items(result) = { [k |-> "filters", v |-> << "simple query" >>],
                         [k |-> "sort", v |-> << "index;desc" >>],
                         [k |-> "perPage", v |-> << ToString(limit) >>],
                         [k |-> "stats", v |-> << "true" >>] }

\* the plain string is cql.allRecords=1, in any letter case
IsDefaultMarker(q) ==
    q.kind = "str" /\ EqCI(q.s, "cql.allrecords=1", "CQL.ALLRECORDS=1")

\* C4 as stated: the plain string cql.allRecords=1 is the no-op query and the
\* dialect stays ambiguous: normalized() holds the CQL and the ERM parameters
\* and no filters entry, id_paging() the cursor query, the sort and the
\* cursor's filters entry
C4_MarkerString_Original ==
    (pc = "ready" /\ IsDefaultMarker(query)) =>
        /\ self._is_default
        /\ DialectUnknown
        /\ Called("normalized") =>
              /\ HasCqlFamily(result) /\ HasErmFamily(result)
              /\ ~PHas(result, "filters")
        /\ Called("id_paging") =>
              /\ PGetList(result, "query")
                    = << cursor_predicate(self, call.last_id) \o " sortBy id" >>
              /\ PGetList(result, "sort") = << "id;asc" >>
              /\ PGetList(result, "filters")
                    = << cursor_predicate(self, call.last_id) >>

\* C4 as amended: the plain string cql.allRecords=1 is the no-op query, and
\* it is CQL-true and ERM-false: normalized() is exactly query=<the string>
\* and limit, id_paging() exactly the cursor query, without a conjoined
\* predicate, and limit
C4_MarkerStringIsCql ==
    (pc = "ready" /\ IsDefaultMarker(query)) =>
        /\ self._is_default
        /\ self._is_cql = "True" /\ self._is_erm = "False"
        /\ Called("normalized") =>
              Items(result) = { [k |-> "query", v |-> << query.s >>],
                                [k |-> "limit", v |-> << ToString(limit) >>] }
        /\ Called("id_paging") =>
              Items(result) =
                  { [k |-> "query",
                     v |-> << cursor_predicate(self, call.last_id)
                                 \o " sortBy id" >>],
                    [k |-> "limit", v |-> << ToString(limit) >>] }

\* C4's case: the marker in upper case, paged by id from the start
C4_Witness ==
    /\ Called("id_paging")
    /\ query = StrInput("CQL.ALLRECORDS=1")
    /\ call.last_id = None
    /\ PGetList(result, "query") = << "id>" \o LOWEST_ID \o " sortBy id" >>

\* the input as a parameter set
InputParams(q) ==
    IF q.kind = "dict" THEN PFromDict(q.d)
    ELSE IF q.kind = "params" THEN q.p
    ELSE EmptyParams

\* the entries whose key is not in a set, in order
Outside(params, keys) == SelectSeq(params, LAMBDA e : e.k \notin keys)

\* the entries whose key is one of another set's, in order
WithKeysOf(params, other) == SelectSeq(params, LAMBDA e : PHas(other, e.k))

\* C5 as stated: the passthrough set is the input without the keys query,
\* filters, limit, perPage, offset, stats and sort, in order, and it is part
\* of normalized()
C5_Passthrough_Original ==
    /\ pc = "ready" =>
          self._additional_params
              = Outside(InputParams(query),
                        {"query", "filters", "limit", "perPage", "offset",
                         "stats", "sort"})
    /\ Called("normalized") =>
          WithKeysOf(result, self._additional_params) = self._additional_params

\* C5 as amended: the passthrough set is the input without the keys query,
\* filters, limit, perPage, offset and stats, in order and with the values as
\* the parameter set holds them; a sort entry is part of it; it is empty for
\* a string or None, and it is part of normalized()
C5_Passthrough ==
    /\ pc = "ready" =>
          /\ self._additional_params
                = Outside(InputParams(query),
                          {"query", "filters", "limit", "perPage", "offset",
                           "stats"})
          /\ PGetList(self._additional_params, "sort")
                = PGetList(InputParams(query), "sort")
          /\ ~IsMapping(query) => self._additional_params = EmptyParams
    /\ Called("normalized") =>
          WithKeysOf(result, self._additional_params) = self._additional_params

\* C5's case: a dict with a sort key and other keys, normalized
C5_Witness ==
    /\ Called("normalized")
    /\ query.kind = "dict"
    /\ PGetList(result, "sort") = << "index;desc" >>
    /\ PGetList(result, "lang") = << "en" >>
    /\ PGetList(result, "facets") = << "f1", "f2" >>
    /\ PGetList(result, "expand") = << "true" >>

\* the query value of normalized() with the sort defaulted
DefaultSortedQuery(view) ==
    Called(view) =>
        \E n \in {normalized(self)} :
           /\ PHas(n, "query") =>
                 PGetList(result, "query")
                    = << PGetItem(n, "query") \o
                           (IF self._sort_type = "UNSORTED" THEN " sortBy id"
                            ELSE "") >>
           /\ ~PHas(n, "query") => ~PHas(result, "query")

\* sort is id;asc where normalized() has none and ERM is not ruled out, and
\* is as in normalized() everywhere else
DefaultSortedErm(view) ==
    Called(view) =>
        \E n \in {normalized(self)} :
           /\ (~PHas(n, "sort") /\ self._is_erm \in {"None", "True"}) =>
                 PGetList(result, "sort") = << "id;asc" >>
           /\ ~(~PHas(n, "sort") /\ self._is_erm \in {"None", "True"}) =>
                 PGetList(result, "sort") = PGetList(n, "sort")
           /\ PGetList(InputParams(query), "sort") # << >> =>
                 PGetList(result, "sort") = PGetList(InputParams(query), "sort")
           /\ self._is_cql = "True" => ~PHas(result, "sort")

\* offset_paging() of an unresolved dialect with a page size above the ceiling
OverCeiling ==
    Called("offset_paging") /\ self._is_erm = "None" /\ limit > ERM_MAX_PERPAGE

\* C6 as stated: stats() and offset_paging() append ' sortBy id' to the
\* query of normalized() exactly when there is one and the direction is
\* unsorted, and add sort=id;asc exactly when normalized() has no sort and
\* ERM is not ruled out; a caller's sort stays as it is, a CQL-true input
\* gets no sort
C6_SortDefaulting_Original ==
    /\ DefaultSortedQuery("stats") /\ DefaultSortedErm("stats")
    /\ DefaultSortedQuery("offset_paging") /\ DefaultSortedErm("offset_paging")

\* C6 as amended: the same, but offset_paging() of an unresolved dialect with
\* a limit above 100 has no sort key: the added sort=id;asc is removed again
C6_SortDefaulting ==
    /\ DefaultSortedQuery("stats") /\ DefaultSortedErm("stats")
    /\ DefaultSortedQuery("offset_paging")
    /\ ~OverCeiling => DefaultSortedErm("offset_paging")
    /\ OverCeiling => ~PHas(result, "sort")

\* C6's case: a plain string of unknown dialect, paged by offset
C6_Witness ==
    /\ Called("offset_paging")
    /\ query = StrInput("simple query")
    /\ limit = DEFAULT_PAGE_SIZE
    /\ PGetList(result, "query") = << "simple query sortBy id" >>
    /\ PGetList(result, "sort") = << "id;asc" >>

\* the page index of the call: 0 when omitted
PageIndex == IF call.page = None THEN 0 ELSE call.page[1]

\* C7: offset_paging(N) has offset = N * effective_limit, effective_limit
\* being min(limit, 100) exactly when the ERM flag is true and limit
\* otherwise; perPage is min(limit, 100) when the ERM flag is true, and the
\* limit and perPage keys there are equal effective_limit
C7_OffsetIsPageTimesLimit ==
    Called("offset_paging") =>
        \E eff \in { IF self._is_erm = "True" /\ limit > 100 THEN 100
                     ELSE limit } :
           /\ PGetList(result, "offset") = << ToString(PageIndex * eff) >>
           /\ self._is_erm = "True" =>
                 PGetList(result, "perPage") = << ToString(eff) >>
           /\ PHas(result, "limit") =>
                 PGetList(result, "limit") = << ToString(eff) >>
           /\ PHas(result, "perPage") =>
                 PGetList(result, "perPage") = << ToString(eff) >>

\* C7's case: the third page of an ERM input with a page size of 1000
C7_Witness ==
    /\ Called("offset_paging")
    /\ self._is_erm = "True"
    /\ limit = 1000
    /\ call.page = Some(2)
    /\ PGetList(result, "offset") = << "200" >>
    /\ PGetList(result, "perPage") = << "100" >>

C9_BiggerPageDefault ==
    (Called("offset_paging") /\ query = NoneInput /\ limit > 100) =>
        Items(result) =
            { [k |-> "query", v |-> << "cql.allRecords=1 sortBy id" >>],
              [k |-> "limit", v |-> << ToString(limit) >>],
              [k |-> "stats", v |-> << "true" >>],
              [k |-> "offset", v |-> << ToString(PageIndex * limit) >> ] }

StartsWith(s, prefix) ==
    Len(s) >= Len(prefix) /\ SubSeq(s, 1, Len(prefix)) = prefix

EndsWith(s, suffix) ==
    Len(s) >= Len(suffix) /\ SubSeq(s, Len(s) - Len(suffix) + 1, Len(s)) = suffix

\* id_paging() with the cursor id: every part that depends on the direction
DirectionConsistent(id) ==
    \E pred \in { IF self._sort_type = "DESCENDING" THEN "id<" \o id
                  ELSE "id>" \o id } :
       /\ self._is_cql \in {"None", "True"} =>
             /\ Len(PGetList(result, "query")) = 1
             /\ StartsWith(PGetItem(result, "query"), pred)
             /\ EndsWith(PGetItem(result, "query"),
                         IF self._sort_type = "DESCENDING"
                         THEN " sortBy id/sort.descending" ELSE " sortBy id")
             /\ self._sort_type # "DESCENDING" =>
                   ~EndsWith(PGetItem(result, "query"), "/sort.descending")
       /\ self._is_erm \in {"None", "True"} =>
             /\ PGetList(result, "sort")
                   = << IF self._sort_type = "DESCENDING" THEN "id;desc"
                        ELSE "id;asc" >>
             /\ PGetList(result, "filters") = self._query \o << pred >>

\* the default cursor of the detected direction
DefaultCursor ==
    IF self._sort_type = "DESCENDING"
    THEN "99999999-9999-9999-9999-999999999999"
    ELSE "00000000-0000-0000-0000-000000000000"

\* C10 as stated: in id_paging(last_id) the direction fixes the default
\* cursor, the predicate, the CQL suffix and the ERM sort alike; a supplied
\* last_id replaces the default in the CQL query and the ERM filters entry;
\* there is one sort value and one added filters entry after the captured
\* ones when ERM is not ruled out
C10_DirectionConsistent_Original ==
    Called("id_paging") =>
        DirectionConsistent(IF call.last_id # None THEN call.last_id[1]
                            ELSE DefaultCursor)

\* C10 as amended: the same for a supplied last_id that is not empty; an
\* empty last_id is replaced by the default cursor like an omitted one
C10_DirectionConsistent ==
    Called("id_paging") =>
        DirectionConsistent(IF call.last_id \notin {None, Some("")}
                            THEN call.last_id[1] ELSE DefaultCursor)

\* C10's case: a descending ERM input paged from a supplied cursor
C10_Witness ==
    /\ Called("id_paging")
    /\ self._sort_type = "DESCENDING"
    /\ self._is_erm = "True"
    /\ call.last_id = Some(LAST_ID)
    /\ self._query = << "two", "filters" >>
    /\ PGetList(result, "sort") = << "id;desc" >>
    /\ PGetList(result, "filters") = << "two", "filters", "id<" \o LAST_ID >>

\* the cursor of the call: last_id, or the default for none or an empty one
Cursor ==
    IF call.last_id \notin {None, Some("")} THEN call.last_id[1]
    ELSE DefaultCursor

\* the cursor predicate of the call
CursorPredicate ==
    IF self._sort_type = "DESCENDING" THEN "id<" \o Cursor ELSE "id>" \o Cursor

\* the sort suffix of the call
SortSuffix ==
    IF self._sort_type = "DESCENDING" THEN " sortBy id/sort.descending"
    ELSE " sortBy id"

\* the inputs C11 names as conjoining nothing
ConjoinsNothing ==
    \/ query = NoneInput
    \/ query = DictInput(<< [k |-> "query", v |-> StrV("cql.allRecords=1")] >>)
    \/ query \in { StrInput("cql.allRecords=1 sortBy id"),
                   StrInput("cql.allRecords=1 SORTBY id desc"),
                   StrInput("cql.allRecords=1 sortby id/sort.ascending") }

\* C11: when CQL is not ruled out, the query of id_paging() is the cursor
\* predicate, then ' and (P)' with P the captured custom CQL prefix if the
\* input is not the no-op default and a prefix was captured, else the one
\* captured value if there is exactly one and the input is not the no-op
\* default, else nothing, then the sort suffix; limit is the caller's limit.
\* None, {query: cql.allRecords=1} and 'cql.allRecords=1 sortBy id ...'
\* conjoin nothing, 'simple query' conjoins ' and (simple query)'
C11_CursorQuery ==
    (Called("id_paging") /\ self._is_cql \in {"None", "True"}) =>
        /\ PGetList(result, "query") =
              << CursorPredicate \o
                 (IF ~self._is_default /\ self._custom_cql # None
                  THEN " and (" \o self._custom_cql[1] \o ")"
                  ELSE IF ~self._is_default /\ Len(self._query) = 1
                  THEN " and (" \o self._query[1] \o ")"
                  ELSE "") \o
                 SortSuffix >>
        /\ PGetList(result, "limit") = << ToString(limit) >>
        /\ ConjoinsNothing =>
              PGetList(result, "query") = << CursorPredicate \o SortSuffix >>
        /\ query = StrInput("simple query") =>
              PGetList(result, "query")
                 = << "id>" \o Cursor \o " and (simple query) sortBy id" >>

\* C11's case: 'simple query' paged from a supplied cursor
C11_Witness ==
    /\ Called("id_paging")
    /\ query = StrInput("simple query")
    /\ call.last_id = Some(LAST_ID)
    /\ PGetList(result, "query")
          = << "id>a88e5d82-96f7-4d9f-b7d6-1504c3b26a3d and (simple query) sortBy id" >>

\* sortby at offset i, then white space, id, and a direction marker joined by
\* white space or by '/sort.'
DirectionAfter(s, i, lo, up) ==
    /\ MatchCI(s, i, "sortby", "SORTBY")
    /\ \E w \in {SkipWS(s, i + 6)} :
          /\ w > i + 6
          /\ MatchCI(s, w, "id", "ID")
          /\ \/ MatchCI(s, w + 2, "/sort." \o lo, "/SORT." \o up)
             \/ \E v \in {SkipWS(s, w + 2)} : v > w + 2 /\ MatchCI(s, v, lo, up)

\* the direction C12 gives a text
TextDirection(s) ==
    IF \E i \in 0..Len(s) : DirectionAfter(s, i, "desc", "DESC")
    THEN "DESCENDING"
    ELSE IF \E i \in 0..Len(s) : DirectionAfter(s, i, "asc", "ASC")
    THEN "ASCENDING"
    ELSE IF ContainsSortby(s) THEN "NONSTANDARD"
    ELSE "UNSORTED"

\* the input is a mapping with one non-empty string under the query key
HasQueryText ==
    /\ IsMapping(query)
    /\ HasKey(query, "query")
    /\ QueryIsString(query)
    /\ QueryString(query) # ""

\* the input is a mapping with a string under the sort key and no query key
HasSortText ==
    /\ IsMapping(query)
    /\ ~HasKey(query, "query")
    /\ HasKey(query, "sort")
    /\ IF query.kind = "params" THEN PGetList(query.p, "sort") # << >>
       ELSE DGet(query.d, "sort").t = "str"

\* the string under the sort key of a mapping without a query key
SortText ==
    IF query.kind = "params" THEN PGetItem(query.p, "sort")
    ELSE DGet(query.d, "sort").s

\* C12: the direction is read from the plain string, else from the query
\* value, else from the sort value; a text with sortby, id and a desc
\* (asc) marker joined by a space or '/sort.' is descending (ascending), a
\* text with sortby and no such marker is nonstandard, a text without sortby
\* is unsorted; of the sort values only id;asc and id;desc are ascending and
\* descending
C12_SortDirection ==
    pc = "ready" =>
        /\ query.kind = "str" => self._sort_type = TextDirection(query.s)
        /\ HasQueryText => self._sort_type = TextDirection(QueryString(query))
        /\ HasSortText =>
              /\ SortText = "id;asc" => self._sort_type = "ASCENDING"
              /\ SortText = "id;desc" => self._sort_type = "DESCENDING"
              /\ ~EqCI(Strip(SortText), "id;asc", "ID;ASC") =>
                    self._sort_type # "ASCENDING"
              /\ ~EqCI(Strip(SortText), "id;desc", "ID;DESC") =>
                    self._sort_type # "DESCENDING"

\* C13: stats() has limit = 1 where normalized() has a limit key and
\* perPage = 1 where it has a perPage key, and neither key elsewhere; apart
\* from these, the sort-defaulted query and the added default sort it is
\* normalized(): stats=true, the filters and every other entry are the same
\* and in the same order
C13_StatsOneRow ==
    Called("stats") =>
        \E n \in {normalized(self)} :
           /\ PGetList(result, "limit")
                 = (IF PHas(n, "limit") THEN << "1" >> ELSE << >>)
           /\ PGetList(result, "perPage")
                 = (IF PHas(n, "perPage") THEN << "1" >> ELSE << >>)
           /\ Outside(result, {"limit", "perPage", "query", "sort"})
                 = Outside(n, {"limit", "perPage", "query", "sort"})
           /\ PGetList(result, "stats") = PGetList(n, "stats")
           /\ PGetList(result, "filters") = PGetList(n, "filters")
           /\ [i \in 1..Len(Outside(result, {"sort"})) |->
                  Outside(result, {"sort"})[i].k]
                 = [i \in 1..Len(Outside(n, {"sort"})) |->
                       Outside(n, {"sort"})[i].k]
           /\ PHas(n, "sort") => PGetList(result, "sort") = PGetList(n, "sort")
           /\ PHas(result, "query") =>
                 StartsWith(PGetItem(result, "query"), PGetItem(n, "query"))

\* C13's case: input None with a page size of 1000
C13_Witness ==
    /\ Called("stats")
    /\ query = NoneInput
    /\ limit = 1000
    /\ Items(result) = { [k |-> "query", v |-> << "cql.allRecords=1 sortBy id" >>],
                         [k |-> "limit", v |-> << "1" >>],
                         [k |-> "perPage", v |-> << "1" >>],
                         [k |-> "stats", v |-> << "true" >>],
                         [k |-> "sort", v |-> << "id;asc" >>] }

\* C14: whatever views were called before, the object is as __init__ left
\* it (passthrough set, captured values, flags, sort direction, limit) and
\* the view called last returned what it returns on a fresh object of the
\* same input and limit
C14_ViewsDoNotMutate ==
    (pc = "ready" /\ call.view # "") =>
        \E fresh \in {__init__(query, limit)} :
           /\ self = fresh
           /\ call.view = "normalized" => result = normalized(fresh)
           /\ call.view = "stats" => result = stats(fresh)
           /\ call.view = "offset_paging" =>
                 result = offset_paging(fresh, call.page)
           /\ call.view = "id_paging" => result = id_paging(fresh, call.last_id)

\* C14's case: normalized() called after another view on 'simple query'
C14_Witness ==
    /\ Called("normalized")
    /\ call.again
    /\ query = StrInput("simple query")
    /\ PGetList(result, "filters") = << "simple query" >>
    /\ self._additional_params = EmptyParams

\* how many values the query key of a mapping holds
QueryValueCount ==
    IF query.kind = "params" THEN Len(PGetList(query.p, "query"))
    ELSE IF DGet(query.d, "query").t = "list"
    THEN Len(DGet(query.d, "query").items)
    ELSE 1

\* the query key of a dict holds a scalar that is not a string
QueryNotString ==
    query.kind = "dict" /\ DGet(query.d, "query").t \notin {"str", "list"}

\* C15: construction from a mapping with a query key fails with a TypeError
\* when the value is not a string and when the key holds more than one
\* value; with no value under the key it does not fail and captures nothing
C15_QueryErrors ==
    (pc # "start" /\ IsMapping(query) /\ HasKey(query, "query")) =>
        /\ (QueryNotString \/ QueryValueCount > 1) =>
              pc = "failed" /\ error = "TypeError"
        /\ ( /\ QueryValueCount = 0
             /\ ~HasKey(query, "filters")
             /\ ~HasKey(query, "sort") ) =>
              pc = "ready" /\ self._query = << >>

\* C16: construction from a dict whose filters value is not a string or a
\* sequence of strings fails with a TypeError, for a sequence with an element
\* that is no string and for a scalar that is no string alike; a string is
\* captured as a one-element list, a sequence of strings in its order
C16_FilterErrors ==
    (pc # "start" /\ query.kind = "dict" /\ HasKey(query, "filters")) =>
        /\ ~FiltersWellFormed(query) => pc = "failed" /\ error = "TypeError"
        /\ (FiltersWellFormed(query) /\ pc = "ready") =>
              self._query = FilterList(query)

\* no query key, or one string under it
QueryWellFormed ==
    ~IsMapping(query) \/ ~HasKey(query, "query") \/ QueryIsString(query)

\* no filters key, or a string or a sequence of strings under it
FiltersOK ==
    ~IsMapping(query) \/ ~HasKey(query, "filters") \/ FiltersWellFormed(query)

\* no sort key, or a string under it (the first one of a parameter set)
SortIsString ==
    \/ query.kind # "dict"
    \/ ~HasKey(query, "sort")
    \/ DGet(query.d, "sort").t = "str"

SortbyCount(s) ==
    Cardinality({i \in 0..Len(s) : MatchCI(s, i, "sortby", "SORTBY")})

\* C18: a query that id_paging() emits holds exactly one sortBy clause, the
\* one appended at its end: what is conjoined in ' and (...)' holds no sortby
\* token, whatever sort clause the input carries
C18_OneSortClause ==
    (Called("id_paging") /\ PHas(result, "query")) =>
        /\ SortbyCount(PGetItem(result, "query")) = 1
        /\ EndsWith(PGetItem(result, "query"), SortSuffix)

====
